---- MODULE Spec2Model ----
(***************************************************************************)
(* Model of src/src/classes/Worker.js: the Worker (Tracker) of the Akamai  *)
(* 2.0 script monitor.  One Worker instance; run() invocations are the     *)
(* processes.  JavaScript runs each continuation between two awaits to     *)
(* completion, so one action is one such continuation.  Strings are        *)
(* sequences of one-character strings.                                     *)
(***************************************************************************)
EXTENDS Integers, Sequences, FiniteSets, TLC

\* ---------------------------------------------------------------- bounds
MaxRuns == 2
MaxScripts == 3
MaxPieces == 3

Runs == 1..MaxRuns

\* ------------------------------------------------------- string literals
HTTPS == <<"h", "t", "t", "p", "s", ":", "/", "/">>
SECCPT == <<"s", "e", "c", "-", "c", "p", "t">>
UNDEFINED == <<"u", "n", "d", "e", "f", "i", "n", "e", "d">>
MARKER_PREFIX == <<"(", "f", "u", "n", "c", "t", "i", "o", "n", "(", ")", "{", "v", "a", "r", " ">>
MARKER_SUFFIX == <<"=", "{", "}">>
SENTINEL == <<"C", "o", "u", "l", "d", " ", "n", "o", "t", " ", "p", "a", "r", "s", "e", " ", "t", "h", "e", " ", "n", "a", "m", "e", " ", "o", "f", " ", "t", "o", "p", " ", "i", "d", "e", "n", "t", "i", "f", "i", "e", "r", ".">>
DIR_PREFIX == <<".", "\\", "a", "s", "s", "e", "t", "s", "\\", "d", "o", "w", "n", "l", "o", "a", "d", "e", "d", "_", "a", "k", "a", "m", "a", "i", "_", "s", "c", "r", "i", "p", "t", "s", "\\">>
EMPTY == << >>

\* ------------------------------------------------------------ input sets
HostPlain == <<"x", ".", "i", "o">>
HostSec == <<"s", "e", "c", "-", "c", "p", "t", ".", "i", "o">>
Hosts == {HostPlain, HostSec}

SrcA == <<"/", "a", ".", "j", "s">>
SrcB == <<"/", "b", ".", "j", "s">>
SrcC == <<"/", "c", ".", "j", "s">>
SrcSec == <<"/", "s", "e", "c", "-", "c", "p", "t", "-", "c", "h", "e", "c", "k", ".", "j", "s">>
Srcs == {SrcA, SrcB, SrcC, SrcSec}

\* A <script> element: with a src attribute, or without one (inline script).
WithSrc(s) == [hasSrc |-> TRUE, src |-> s]
NoSrc == [hasSrc |-> FALSE, src |-> EMPTY]
ScriptElements == {WithSrc(s) : s \in Srcs} \cup {NoSrc}

SeqsUpTo(S, n) == UNION {[1..k -> S] : k \in 0..n}

\* The data of a page response: markup (its script elements in document
\* order), an empty string, or content the parser rejects.
Html(scripts) == [kind |-> "html", scripts |-> scripts]
EmptyData == [kind |-> "empty", scripts |-> EMPTY]
MalformedData == [kind |-> "malformed", scripts |-> EMPTY]
Pages == {Html(s) : s \in SeqsUpTo(ScriptElements, MaxScripts)}

\* The pages served to run(): every way the locator can end (no script, a
\* src, a missing src, a sec-cpt src last).
RunElements == {WithSrc(SrcA), WithSrc(SrcSec), NoSrc}
RunPages == {Html(s) : s \in SeqsUpTo(RunElements, MaxScripts)}

\* Script bodies: text, the empty string, or a non-string value.
BodyFoo == MARKER_PREFIX \o <<"F", "O", "O">> \o MARKER_SUFFIX \o <<";">>
BodyPlain == <<"v", "a", "r", " ", "x", ";">>
Text(t) == [kind |-> "text", text |-> t]
NonText == [kind |-> "nontext", text |-> EMPTY]
TextBodies == {Text(BodyFoo), Text(BodyPlain)}
Bodies == TextBodies \cup {Text(EMPTY), NonText}

\* The bodies given to the identifier extractor alone: up to MaxPieces
\* pieces, each the marker prefix, the marker suffix or other text.
Pieces == {MARKER_PREFIX, MARKER_SUFFIX, <<"F", "O", "O">>, <<";">>}
RECURSIVE Flatten(_)
Flatten(ps) == IF ps = << >> THEN << >> ELSE Head(ps) \o Flatten(Tail(ps))
IdentBodies == {Flatten(ps) : ps \in SeqsUpTo(Pieces, MaxPieces)}

\* An HTTP outcome: status 0 stands for a transport-level failure.
Response(status, data) == [status |-> status, data |-> data]
\* 203 is a 2xx status other than 200; any status may come with content.
FailStatuses == {0, 404, 203}
PageResponses ==
    {Response(s, d) : s \in FailStatuses, d \in {Html(<<WithSrc(SrcA)>>), EmptyData}}
        \cup {Response(200, d) : d \in RunPages \cup {EmptyData, MalformedData}}
ScriptResponses ==
    {Response(s, b) : s \in FailStatuses \cup {200}, b \in Bodies}

\* The responses served to overlapping run() calls: a failed or a good
\* fetch, pages that resolve to no URL or to one of two URLs.
OverlapPages == {Html(<< >>), Html(<<WithSrc(SrcA)>>), Html(<<WithSrc(SrcSec)>>)}
OverlapPageResponses == {Response(s, d) : s \in {404, 200}, d \in OverlapPages}
OverlapScriptResponses == {Response(s, b) : s \in {404, 200}, b \in TextBodies}

\* -------------------------------------------------------- string helpers
\* String.prototype.includes
Includes(s, t) ==
    \E i \in 1..(Len(s) - Len(t) + 1) : SubSeq(s, i, i + Len(t) - 1) = t

\* First index of t in s, 0 when absent (String.prototype.indexOf, 1-based).
IndexOf(s, t) ==
    IF Includes(s, t)
    THEN CHOOSE i \in 1..(Len(s) - Len(t) + 1) :
            /\ SubSeq(s, i, i + Len(t) - 1) = t
            /\ \A j \in 1..(i - 1) : SubSeq(s, j, j + Len(t) - 1) # t
    ELSE 0

\* ------------------------------------------------------- axios and fetch
\* axios rejects on a transport failure and on a status outside 2xx.
AxiosRejects(resp) == resp.status < 200 \/ resp.status >= 300

\* The request configuration of siteRequest and scriptRequest: the
\* user-agent string is a top-level key of the configuration, and the
\* configuration has no headers entry.
USER_AGENT == "Mozilla/5.0 (Windows NT 10.0; Win64; x64) AppleWebKit/537.36 (KHTML, like Gecko) Chrome/102.0.5005.63 Safari/537.36"
AXIOS_DEFAULT_USER_AGENT == "axios"
NoHeaders == [h \in {} |-> ""]
requestConfig(url) ==
    [method |-> "get", url |-> url, user_agent |-> USER_AGENT, headers |-> NoHeaders]

\* The GET axios issues for a configuration: request headers come from the
\* headers entry, and the library's own User-Agent is sent when that entry
\* names none.
AxiosSends(config) ==
    [url |-> config.url,
     userAgent |-> IF "user-agent" \in DOMAIN config.headers
                   THEN config.headers["user-agent"]
                   ELSE AXIOS_DEFAULT_USER_AGENT]

\* A fetch that forgets the status test.
siteRequest_AnyStatus(resp) == [isNull |-> FALSE, data |-> resp.data]

\* siteRequest / scriptRequest after the await: null unless status is 200.
siteRequest(resp) ==
    IF resp.status # 200 THEN [isNull |-> TRUE, data |-> EmptyData]
    ELSE [isNull |-> FALSE, data |-> resp.data]

scriptRequest(resp) ==
    IF resp.status # 200 THEN [isNull |-> TRUE, data |-> Text(EMPTY)]
    ELSE [isNull |-> FALSE, data |-> resp.data]

\* JavaScript falsiness of a fetch result: null or the empty string.
FalsySite(v) == v.isNull \/ v.data.kind = "empty"
\* A test for null only, letting the empty string through.
FalsyBody_NullOnly(v) == v.isNull

FalsyBody(v) == v.isNull \/ (v.data.kind = "text" /\ v.data.text = EMPTY)

\* ---------------------------------------------------------- ScriptLocator
\* "https://" + this.host + el.attribs.src : a missing src concatenates as
\* the text "undefined".
SrcText(el) == IF el.hasSrc THEN el.src ELSE UNDEFINED
UrlOf(h, el) == HTTPS \o h \o SrcText(el)

\* parseAkamaiUrl: the value assigned to this.akamaiURL and returned, and
\* whether the try block raised (console.error).
parseAkamaiUrl(scriptArr, h) ==
    LET n == Len(scriptArr) IN
    IF n = 0 THEN [url |-> EMPTY, threw |-> TRUE]
    ELSE LET first == UrlOf(h, scriptArr[n]) IN
         IF Includes(first, SECCPT)
         THEN IF n >= 2
              THEN [url |-> UrlOf(h, scriptArr[n - 1]), threw |-> FALSE]
              ELSE [url |-> first, threw |-> TRUE]
         ELSE [url |-> first, threw |-> FALSE]

\* A setter that keeps a URL once one is stored.
akamaiURLSetter_KeepsFirst(url, old) == IF old = EMPTY THEN url ELSE old

\* set akamaiURL(url): the value of this._akamaiURL after the assignment
\* on line 115, given its old value.
akamaiURLSetter(url, old) == url

\* ---------------------------------------------------------- ContentHasher
Alphabet == <<"(", ")", "{", "}", "=", ";", " ", "a", "b", "c", "f", "i",
              "n", "o", "q", "r", "t", "u", "v", "x", "F", "O">>
HexDigits == <<"0", "1", "2", "3", "4", "5", "6", "7", "8", "9",
               "a", "b", "c", "d", "e", "f">>
Code(c) == CHOOSE i \in 1..Len(Alphabet) : Alphabet[i] = c

RECURSIVE Checksum(_, _)
Checksum(content, k) ==
    IF k = 0 THEN Len(content)
    ELSE (Checksum(content, k - 1) * 31 + Code(content[k])) % 256

\* getScriptHash: crypto's MD5 hex digest, modelled by a one-byte polynomial
\* checksum of the content: deterministic, never empty, fixed-width
\* lowercase hex, computed from every character.
getScriptHash(content) ==
    LET d == Checksum(content, Len(content)) IN
    <<HexDigits[(d \div 16) + 1], HexDigits[(d % 16) + 1]>>

\* ----------------------------------------------------- IdentifierExtractor
\* content.split(PREFIX)[1].split(SUFFIX)[0], the sentinel when [1] is
\* undefined.
getTopIdentifier(content) ==
    LET i == IndexOf(content, MARKER_PREFIX) IN
    IF i = 0 THEN SENTINEL
    ELSE LET rest == SubSeq(content, i + Len(MARKER_PREFIX), Len(content))
             j == IndexOf(rest, MARKER_PREFIX)
             seg == IF j = 0 THEN rest ELSE SubSeq(rest, 1, j - 1)
             k == IndexOf(seg, MARKER_SUFFIX)
         IN IF k = 0 THEN seg ELSE SubSeq(seg, 1, k - 1)

\* ---------------------------------------------------------- ChangeDetector
\* Three slips of isNewHash: the comparison inverted, the early return
\* dropped, the assignment dropped.
isNewHash_Inverted(newHash, stored) ==
    IF newHash # stored
    THEN [result |-> FALSE, scriptHash |-> stored]
    ELSE [result |-> TRUE, scriptHash |-> newHash]

isNewHash_AlwaysNew(newHash, stored) ==
    [result |-> TRUE, scriptHash |-> newHash]

isNewHash_KeepsOld(newHash, stored) ==
    [result |-> newHash # stored, scriptHash |-> stored]

\* A fourth slip: the hash is stored but false is returned.
isNewHash_StoresSilently(newHash, stored) ==
    [result |-> FALSE, scriptHash |-> newHash]

\* isNewHash: the returned boolean and the value of this.scriptHash after.
isNewHash(newHash, stored) ==
    IF newHash = stored
    THEN [result |-> FALSE, scriptHash |-> stored]
    ELSE [result |-> TRUE, scriptHash |-> newHash]

\* --------------------------------------------------------------- Persister
\* A path that names the top identifier where the hash belongs.
OutputPath_IdentifierForHash(h, topIdentifier, hash) ==
    DIR_PREFIX \o h \o <<"\\">> \o h \o <<"_">> \o topIdentifier
        \o <<"_">> \o topIdentifier \o <<".", "j", "s">>

\* outputPath of saveScriptToDisk.
OutputPath(h, topIdentifier, hash) ==
    DIR_PREFIX \o h \o <<"\\">> \o h \o <<"_">> \o topIdentifier
        \o <<"_">> \o hash \o <<".", "j", "s">>

\* ------------------------------------------------------------------ state
VARIABLES
    host,        \* this._host, fixed at construction
    scriptHash,  \* this._scriptHash
    akamaiURL,   \* this._akamaiURL
    pc,          \* per run() invocation: the await it is suspended at
    ret,         \* per invocation: what the run() promise resolved to
    local,       \* per invocation: the locals akamaiURL, scriptBody, scriptHash
    detect,      \* per invocation: what isNewHash saw and answered
    startHash,   \* per invocation: this._scriptHash when run() was called
    pendingAtCall, \* per invocation: the invocations pending when it was called
    status,      \* per invocation: the HTTP statuses received, in order
    save,        \* per invocation: outputPath and body of saveScriptToDisk
    steps,       \* per invocation: the pipeline steps entered, in order
    console,     \* per invocation: what it logged
    unhandled,   \* invocations whose saveScriptToDisk promise rejected
    disk,        \* the files written, oldest first
    sent,        \* per invocation: the GET requests issued, in order
    locate,      \* a single call of parseAkamaiUrl: its markup and its result
    ident        \* a single call of getTopIdentifier: its content and result

vars == <<host, scriptHash, akamaiURL, pc, ret, local, detect, startHash,
          pendingAtCall, status, save, steps, console, unhandled, disk, sent,
          locate, ident>>

NotCalled == [tag |-> "notcalled", site |-> EMPTY, hash |-> EMPTY,
              akamaiURL |-> EMPTY, topIdentifier |-> EMPTY]
Pending == [NotCalled EXCEPT !.tag = "pending"]
Undefined == [NotCalled EXCEPT !.tag = "undefined"]
Null == [NotCalled EXCEPT !.tag = "null"]
\* A record built with the hash in the place of the identifier.
Record_HashAsIdentifier(site, hash, url, topIdentifier) ==
    [tag |-> "record", site |-> site, hash |-> hash, akamaiURL |-> url,
     topIdentifier |-> hash]

Record(site, hash, url, topIdentifier) ==
    [tag |-> "record", site |-> site, hash |-> hash, akamaiURL |-> url,
     topIdentifier |-> topIdentifier]

NoLocal == [siteData |-> "none", akamaiURL |-> EMPTY, scriptBody |-> Text(EMPTY),
            scriptHash |-> EMPTY]
NoDetect == [verdict |-> "none", seen |-> EMPTY]
NoSave == [outputPath |-> EMPTY, scriptBody |-> EMPTY, outcome |-> "none"]
NoLocate == [markup |-> EMPTY, called |-> FALSE, url |-> EMPTY, threw |-> FALSE]
NoIdent == [content |-> EMPTY, called |-> FALSE, result |-> EMPTY]

\* constructor
Constructed ==
    /\ scriptHash = EMPTY
    /\ akamaiURL = EMPTY
    /\ pc = [r \in Runs |-> "idle"]
    /\ ret = [r \in Runs |-> NotCalled]
    /\ local = [r \in Runs |-> NoLocal]
    /\ detect = [r \in Runs |-> NoDetect]
    /\ startHash = [r \in Runs |-> EMPTY]
    /\ pendingAtCall = [r \in Runs |-> {}]
    /\ status = [r \in Runs |-> << >>]
    /\ save = [r \in Runs |-> NoSave]
    /\ steps = [r \in Runs |-> << >>]
    /\ console = [r \in Runs |-> {}]
    /\ unhandled = {}
    /\ disk = << >>
    /\ sent = [r \in Runs |-> << >>]

Init ==
    /\ host = HostPlain
    /\ locate = NoLocate
    /\ ident = NoIdent
    /\ Constructed

\* Invocations are numbered in the order they are made.
NextToCall(r) ==
    /\ pc[r] = "idle"
    /\ ret[r].tag = "notcalled"
    /\ \A q \in Runs : q < r => ret[q].tag # "notcalled"

\* The caller awaits each run() before making the next call.
Serialized == \A q \in Runs : ret[q].tag # "pending"

\* run() up to its first await: siteRequest issues the GET.
Call(r) ==
    /\ pc' = [pc EXCEPT ![r] = "siteRequest"]
    /\ ret' = [ret EXCEPT ![r] = Pending]
    /\ startHash' = [startHash EXCEPT ![r] = scriptHash]
    /\ pendingAtCall' = [pendingAtCall EXCEPT ![r] =
                            {q \in Runs : ret[q].tag = "pending"}]
    /\ steps' = [steps EXCEPT ![r] = <<"pageFetch">>]
    /\ sent' = [sent EXCEPT ![r] = <<AxiosSends(requestConfig(HTTPS \o host))>>]
    /\ UNCHANGED <<host, scriptHash, akamaiURL, local, detect, status, save,
                   console, unhandled, disk, locate, ident>>

StartRun(r) == NextToCall(r) /\ Serialized /\ Call(r)

StartOverlappingRun(r) == NextToCall(r) /\ Call(r)

\* catch (err) { console.error(err); return null; }
Caught(r, entered) ==
    /\ pc' = [pc EXCEPT ![r] = "done"]
    /\ ret' = [ret EXCEPT ![r] = Null]
    /\ console' = [console EXCEPT ![r] = @ \cup {"error"}]
    /\ steps' = [steps EXCEPT ![r] = @ \o entered]

\* return;  (or falling off the end of the try block)
ReturnUndefined(r, entered, logged) ==
    /\ pc' = [pc EXCEPT ![r] = "done"]
    /\ ret' = [ret EXCEPT ![r] = Undefined]
    /\ console' = [console EXCEPT ![r] = @ \cup logged]
    /\ steps' = [steps EXCEPT ![r] = @ \o entered]

\* The page response arrives: the rest of siteRequest, parseAkamaiUrl, and
\* scriptRequest up to its await.
PageResponse(r, responses) ==
    /\ pc[r] = "siteRequest"
    /\ \E resp \in responses :
        /\ status' = [status EXCEPT ![r] = Append(@, resp.status)]
        /\ IF AxiosRejects(resp)
           THEN /\ Caught(r, << >>)
                /\ UNCHANGED <<akamaiURL, local>>
           ELSE LET siteData == siteRequest(resp) IN
                IF FalsySite(siteData)
                THEN /\ ReturnUndefined(r, << >>, {})
                     /\ UNCHANGED <<akamaiURL, local>>
                ELSE IF siteData.data.kind = "malformed"
                THEN /\ Caught(r, <<"locate">>)
                     /\ local' = [local EXCEPT ![r].siteData = "malformed"]
                     /\ UNCHANGED akamaiURL
                ELSE LET parsed == parseAkamaiUrl(siteData.data.scripts, host) IN
                     /\ akamaiURL' = akamaiURLSetter(parsed.url, akamaiURL)
                     /\ IF parsed.url = EMPTY
                        THEN /\ ReturnUndefined(r, <<"locate">>, {"error"})
                             /\ local' = [local EXCEPT ![r].siteData = "html"]
                        ELSE /\ local' = [local EXCEPT ![r].siteData = "html",
                                                       ![r].akamaiURL = parsed.url]
                             /\ pc' = [pc EXCEPT ![r] = "scriptRequest"]
                             /\ steps' = [steps EXCEPT ![r] =
                                             @ \o <<"locate", "scriptFetch">>]
                             /\ console' = [console EXCEPT ![r] =
                                             IF parsed.threw THEN @ \cup {"error"} ELSE @]
                             /\ UNCHANGED ret
    /\ sent' = [sent EXCEPT ![r] =
                    IF pc'[r] = "scriptRequest"
                    THEN Append(@, AxiosSends(requestConfig(local'[r].akamaiURL)))
                    ELSE @]
    /\ UNCHANGED <<host, scriptHash, detect, startHash, pendingAtCall, save,
                   unhandled, disk, locate, ident>>

\* The script response arrives: the rest of scriptRequest, getScriptHash,
\* isNewHash, getTopIdentifier, saveScriptToDisk up to its first await
\* (mkdir issued), and the return of the record.
ScriptResponse(r, responses) ==
    /\ pc[r] = "scriptRequest"
    /\ \E resp \in responses :
        /\ status' = [status EXCEPT ![r] = Append(@, resp.status)]
        /\ IF AxiosRejects(resp)
           THEN /\ Caught(r, << >>)
                /\ UNCHANGED <<scriptHash, local, detect, save>>
           ELSE LET scriptBody == scriptRequest(resp) IN
                IF FalsyBody(scriptBody)
                THEN /\ ReturnUndefined(r, << >>, {})
                     /\ UNCHANGED <<scriptHash, local, detect, save>>
                ELSE IF scriptBody.data.kind = "nontext"
                THEN /\ Caught(r, <<"hash">>)
                     /\ local' = [local EXCEPT ![r].scriptBody = scriptBody.data]
                     /\ UNCHANGED <<scriptHash, detect, save>>
                ELSE LET content == scriptBody.data.text
                         newHash == getScriptHash(content)
                         cmp == isNewHash(newHash, scriptHash)
                         topIdentifier == getTopIdentifier(content)
                     IN
                     /\ local' = [local EXCEPT ![r].scriptBody = scriptBody.data,
                                               ![r].scriptHash = newHash]
                     /\ scriptHash' = cmp.scriptHash
                     /\ IF cmp.result
                        THEN /\ detect' = [detect EXCEPT ![r] =
                                    [verdict |-> "Changed", seen |-> scriptHash]]
                             /\ save' = [save EXCEPT ![r] =
                                    [outputPath |-> OutputPath(host, topIdentifier,
                                                               cmp.scriptHash),
                                     scriptBody |-> content,
                                     outcome |-> "pending"]]
                             /\ pc' = [pc EXCEPT ![r] = "mkdir"]
                             /\ ret' = [ret EXCEPT ![r] =
                                    Record(host, cmp.scriptHash, akamaiURL,
                                           topIdentifier)]
                             /\ console' = [console EXCEPT ![r] = @ \cup {"change"}]
                             /\ steps' = [steps EXCEPT ![r] =
                                    @ \o <<"hash", "detect", "identifier", "mkdir">>]
                        ELSE /\ detect' = [detect EXCEPT ![r] =
                                    [verdict |-> "NoChange", seen |-> scriptHash]]
                             /\ ReturnUndefined(r, <<"hash", "detect">>, {"same"})
                             /\ UNCHANGED save
    /\ UNCHANGED <<host, akamaiURL, startHash, pendingAtCall, unhandled, disk,
                   sent, locate, ident>>

\* The promise of saveScriptToDisk is not awaited and has no handler: when
\* it rejects, nothing in the Worker catches or logs the error.
Rejected(r, failure) ==
    /\ unhandled' = unhandled \cup {r}
    /\ save' = [save EXCEPT ![r].outcome = failure]
    /\ pc' = [pc EXCEPT ![r] = "done"]

\* mkdir settles: on success saveScriptToDisk goes on to writeFile.
MkdirSettles(r) ==
    /\ pc[r] = "mkdir"
    /\ \E ok \in BOOLEAN :
        IF ok
        THEN /\ pc' = [pc EXCEPT ![r] = "writeFile"]
             /\ steps' = [steps EXCEPT ![r] = Append(@, "write")]
             /\ UNCHANGED <<unhandled, save>>
        ELSE /\ Rejected(r, "mkdirFailed")
             /\ UNCHANGED steps
    /\ UNCHANGED <<host, scriptHash, akamaiURL, ret, local, detect, startHash,
                   pendingAtCall, status, console, disk, sent, locate, ident>>

\* writeFile settles: the callback passed to it is never invoked.
WriteFileSettles(r) ==
    /\ pc[r] = "writeFile"
    /\ \E ok \in BOOLEAN :
        IF ok
        THEN /\ disk' = Append(disk, [path |-> save[r].outputPath,
                                      body |-> save[r].scriptBody])
             /\ save' = [save EXCEPT ![r].outcome = "written"]
             /\ pc' = [pc EXCEPT ![r] = "done"]
             /\ UNCHANGED unhandled
        ELSE /\ Rejected(r, "writeFailed")
             /\ UNCHANGED disk
    /\ UNCHANGED <<host, scriptHash, akamaiURL, ret, local, detect, startHash,
                   pendingAtCall, status, steps, console, sent, locate, ident>>

\* Serialized callers: each run() is awaited before the next is called.
Next ==
    \E r \in Runs :
        \/ StartRun(r)
        \/ PageResponse(r, PageResponses)
        \/ ScriptResponse(r, ScriptResponses)
        \/ MkdirSettles(r)
        \/ WriteFileSettles(r)

Spec == Init /\ [][Next]_vars

\* Re-entrant callers: run() may be called while earlier calls are pending.
NextOverlap ==
    \E r \in Runs :
        \/ StartOverlappingRun(r)
        \/ PageResponse(r, OverlapPageResponses)
        \/ ScriptResponse(r, OverlapScriptResponses)
        \/ MkdirSettles(r)
        \/ WriteFileSettles(r)

SpecOverlap == Init /\ [][NextOverlap]_vars

\* ScriptLocator alone: one call of parseAkamaiUrl on a Worker of any host
\* with any markup, followed by run()'s test of the returned URL (line 47).
InitLocate ==
    /\ host \in Hosts
    /\ locate \in {[NoLocate EXCEPT !.markup = d.scripts] : d \in Pages}
    /\ ident = NoIdent
    /\ Constructed

Locate ==
    /\ ~locate.called
    /\ LET parsed == parseAkamaiUrl(locate.markup, host) IN
        /\ akamaiURL' = akamaiURLSetter(parsed.url, akamaiURL)
        /\ locate' = [locate EXCEPT !.called = TRUE, !.url = parsed.url,
                                    !.threw = parsed.threw]
    /\ UNCHANGED <<host, scriptHash, pc, ret, local, detect, startHash,
                   pendingAtCall, status, save, steps, console, unhandled, disk,
                   sent, ident>>

NextLocate == Locate

SpecLocate == InitLocate /\ [][NextLocate]_vars

\* IdentifierExtractor alone: one call of getTopIdentifier on any body.
InitIdent ==
    /\ host = HostPlain
    /\ locate = NoLocate
    /\ ident \in {[NoIdent EXCEPT !.content = c] : c \in IdentBodies}
    /\ Constructed

Extract ==
    /\ ~ident.called
    /\ ident' = [ident EXCEPT !.called = TRUE,
                              !.result = getTopIdentifier(ident.content)]
    /\ UNCHANGED <<host, scriptHash, akamaiURL, pc, ret, local, detect, startHash,
                   pendingAtCall, status, save, steps, console, unhandled, disk,
                   sent, locate>>

NextIdent == Extract

SpecIdent == InitIdent /\ [][NextIdent]_vars

\* ------------------------------------------------------------ properties
AllSteps == <<"pageFetch", "locate", "scriptFetch", "hash", "detect",
              "identifier", "mkdir", "write">>
IsPrefix(s, t) == Len(s) <= Len(t) /\ SubSeq(t, 1, Len(s)) = s
Entered(r, step) == \E i \in DOMAIN steps[r] : steps[r][i] = step
NoResult(r) == ret[r].tag \in {"null", "undefined"}
Quiescent == \A r \in Runs : pc[r] \in {"idle", "done"}
PersistenceFailed(r) == save[r].outcome \in {"mkdirFailed", "writeFailed"}

\* C1: a run's change detection on a non-empty fingerprint h reports Changed
\* exactly when h differs from the stored hash, and then the stored hash is
\* h; it reports NoChange exactly when h equals the stored hash, and then
\* the stored hash is left as it was.
ChangeDetectionCorrect ==
    [][\A r \in Runs :
        (detect[r].verdict = "none" /\ detect'[r].verdict # "none") =>
            LET h == local'[r].scriptHash IN
            /\ h # EMPTY
            /\ (detect'[r].verdict = "Changed") <=> (h # scriptHash)
            /\ (detect'[r].verdict = "NoChange") <=> (h = scriptHash)
            /\ detect'[r].verdict = "Changed" => scriptHash' = h
            /\ detect'[r].verdict = "NoChange" => scriptHash' = scriptHash]_vars

\* C1 witness: from Unseen the first run detects H1 as Changed and stores
\* it, the second run sees H1 again and reports NoChange.
ChangedThenNoChange ==
    /\ detect[1] = [verdict |-> "Changed", seen |-> EMPTY]
    /\ detect[2] = [verdict |-> "NoChange", seen |-> local[1].scriptHash]
    /\ local[2].scriptHash = local[1].scriptHash
    /\ scriptHash = local[1].scriptHash

\* C2: among serialized runs whose fetches and locate succeed, a run returns
\* a record and starts persisting exactly when the fetched body's
\* fingerprint differs from the hash stored when the run was called; a run
\* that sees the body of the latest change-reporting run returns no result
\* and starts no write.
RecordExactlyOnChange ==
    \A r \in Runs :
        detect[r].verdict # "none" =>
            /\ (ret[r].tag = "record") <=> (local[r].scriptHash # startHash[r])
            /\ Entered(r, "mkdir") <=> (local[r].scriptHash # startHash[r])
            /\ ret[r].tag # "record" =>
                   ret[r] = Undefined /\ save[r] = NoSave /\ ~Entered(r, "write")
            /\ \A q \in Runs :
                   ( /\ q < r
                     /\ detect[q].verdict = "Changed"
                     /\ \A m \in Runs : (q < m /\ m < r) => detect[m].verdict # "Changed"
                     /\ local[r].scriptBody = local[q].scriptBody )
                   => (ret[r] = Undefined /\ save[r] = NoSave)

\* C2 witness: the first run returned a record and wrote the body, the second
\* run fetched the same body and returned no result without a write.
SecondRunUnchanged ==
    /\ ret[1].tag = "record"
    /\ save[1].outcome = "written"
    /\ detect[2].verdict = "NoChange"
    /\ local[2].scriptBody = local[1].scriptBody
    /\ ret[2] = Undefined
    /\ Len(disk) = 1

\* C3: once nothing is in flight, a non-empty stored hash is the fingerprint
\* of the body most recently written to storage.
HashIsOfLastWrittenBody ==
    (Quiescent /\ scriptHash # EMPTY) =>
        (disk # << >> /\ getScriptHash(disk[Len(disk)].body) = scriptHash)

\* C4: no error of any pipeline step is left uncaught.
NoErrorLeftUncaught == \A r \in Runs : r \notin unhandled

\* C5: when directory creation or the file write fails, the Worker logs the
\* failure and absorbs it, and the returned record stays as it was.
PersistenceFailureLoggedAndAbsorbed ==
    [][\A r \in Runs :
        (save[r].outcome = "pending" /\ PersistenceFailed(r)') =>
            /\ console'[r] # console[r]
            /\ unhandled' = unhandled
            /\ ret'[r] = ret[r]]_vars

\* C6: a page fetch that gets a status other than 200 or a transport error
\* ends the run with no result, enters no later step and leaves the stored
\* hash, the stored URL and the disk as they were; likewise the script fetch
\* for the steps after it.
FailedFetch(r, n) ==
    /\ Len(status[r]) = n - 1
    /\ Len(status'[r]) = n
    /\ status'[r][n] # 200
FetchFailureStopsRun ==
    /\ [][\A r \in Runs :
            (FailedFetch(r, 1) \/ FailedFetch(r, 2)) =>
                /\ NoResult(r)'
                /\ pc'[r] = "done"
                /\ steps'[r] = steps[r]
                /\ UNCHANGED <<scriptHash, akamaiURL, disk, detect, save>>]_vars
    /\ [](\A r \in Runs :
            /\ (Len(status[r]) = 1 /\ status[r][1] # 200) =>
                   (steps[r] = <<"pageFetch">> /\ NoResult(r))
            /\ (Len(status[r]) = 2 /\ status[r][2] # 200) =>
                   (steps[r] = <<"pageFetch", "locate", "scriptFetch">> /\ NoResult(r)))

\* C6 witness: after a run that stored a hash and a URL, the next run's page
\* fetch got a 404 and ended with no result, the stored hash and URL intact.
PageFetch404 ==
    /\ detect[1].verdict = "Changed"
    /\ status[2] = <<404>>
    /\ pc[2] = "done"
    /\ ret[2] = Null
    /\ steps[2] = <<"pageFetch">>
    /\ scriptHash = local[1].scriptHash
    /\ akamaiURL = local[1].akamaiURL

\* C7: the steps of a run are entered in pipeline order, each only after
\* every earlier step gave a non-empty result; identifier extraction,
\* directory creation and the file write only after detection said Changed.
PipelineOrder ==
    \A r \in Runs :
        /\ IsPrefix(steps[r], AllSteps)
        /\ Entered(r, "locate") =>
               (status[r][1] = 200 /\ local[r].siteData \in {"html", "malformed"})
        /\ Entered(r, "scriptFetch") => local[r].akamaiURL # EMPTY
        /\ Entered(r, "hash") =>
               /\ Len(status[r]) = 2
               /\ status[r][2] = 200
               /\ local[r].scriptBody # Text(EMPTY)
        /\ Entered(r, "detect") => local[r].scriptHash # EMPTY
        /\ Entered(r, "identifier") => detect[r].verdict = "Changed"
        /\ Entered(r, "write") => save[r].outcome \in {"pending", "written", "writeFailed"}
        /\ detect[r].verdict # "Changed" => save[r] = NoSave

\* C7 witness: a run that went through every step and wrote the file.
FullPipeline == steps[1] = AllSteps /\ save[1].outcome = "written"

\* The element the locator is meant to select: the last script, or the
\* second-to-last when the last one's src contains "sec-cpt".
LastHasSecCpt(markup) ==
    markup[Len(markup)].hasSrc /\ Includes(markup[Len(markup)].src, SECCPT)
AllHaveSrc(markup) == \A i \in DOMAIN markup : markup[i].hasSrc

\* C8: the locator returns the empty URL when the markup has no script
\* element and when the element the heuristic selects has no src.
LocatorNoResult ==
    locate.called =>
        LET m == locate.markup
            n == Len(m)
        IN /\ n = 0 => locate.url = EMPTY
           /\ (n >= 1 /\ ~LastHasSecCpt(m) /\ ~m[n].hasSrc) => locate.url = EMPTY
           /\ (n >= 2 /\ LastHasSecCpt(m) /\ ~m[n - 1].hasSrc) => locate.url = EMPTY

\* C9: when every script has a src, the locator returns https://<host> plus
\* the last src, or plus the second-to-last src when the last src contains
\* "sec-cpt", whatever the host is.
LocatorHeuristic ==
    locate.called =>
        LET m == locate.markup
            n == Len(m)
        IN (n >= 1 /\ AllHaveSrc(m)) =>
               /\ ~LastHasSecCpt(m) => locate.url = HTTPS \o host \o m[n].src
               /\ (LastHasSecCpt(m) /\ n >= 2) =>
                      locate.url = HTTPS \o host \o m[n - 1].src

\* C10, as claimed: of two overlapping runs that fetched the same
\* fingerprint, when one reports Changed the other observes the same old
\* hash in its compare and reports Changed too.
Overlapped(r1, r2) == r1 \in pendingAtCall[r2] \/ r2 \in pendingAtCall[r1]
Compared(r) == detect[r].verdict # "none"
RunFailed(q) ==
    \/ (NoResult(q) /\ ~Compared(q))
    \/ PersistenceFailed(q)
RunSucceeded(r) ==
    /\ Compared(r)
    /\ pc[r] = "done"
    /\ ~PersistenceFailed(r)
SameVersion(q, r) ==
    local[q].scriptBody \in {Text(EMPTY), local[r].scriptBody}
Reported(content) ==
    \E m \in Runs : ret[m].tag = "record" /\ ret[m].hash = getScriptHash(content)
Written(content) == \E i \in DOMAIN disk : disk[i].body = content
SelfHealing ==
    \A r \in Runs :
        (r > 1 /\ RunFailed(r - 1) /\ RunSucceeded(r) /\ SameVersion(r - 1, r)) =>
            /\ Reported(local[r].scriptBody.text)
            /\ Written(local[r].scriptBody.text)

\* C12: the stored hash is empty at construction and changes only in a step
\* in which a run's change detection reports Changed; a run that ends with
\* no result ends with the hash that was stored when it was called.
HashChangesOnlyOnChanged ==
    /\ scriptHash = EMPTY
    /\ [][/\ scriptHash' # scriptHash =>
                \E r \in Runs :
                    /\ detect[r].verdict = "none"
                    /\ detect'[r].verdict = "Changed"
                    /\ ret'[r].tag = "record"
          /\ \A r \in Runs :
                (ret[r].tag = "pending" /\ NoResult(r)') =>
                    (scriptHash' = scriptHash /\ scriptHash' = startHash[r])]_vars

\* C12 witness: after a run stored a hash, the next run was stopped by a
\* caught hashing error and the stored hash is still that of the first run.
CaughtErrorKeepsHash ==
    /\ detect[1].verdict = "Changed"
    /\ ret[2] = Null
    /\ local[2].scriptBody = NonText
    /\ scriptHash = local[1].scriptHash
    /\ scriptHash = startHash[2]

StoredURLIsResolvedURL ==
    [][\A r \in Runs :
        (ret[r].tag = "pending" /\ ret'[r].tag # "pending"
            /\ local'[r].akamaiURL # EMPTY) =>
                akamaiURL' = local'[r].akamaiURL]_vars

\* C14 witness: the second run resolved another URL than the first, its
\* script fetch failed, and the stored URL is the second run's.
FailedFetchKeepsNewURL ==
    /\ ret[1].tag = "record"
    /\ local[2].akamaiURL # EMPTY
    /\ local[2].akamaiURL # local[1].akamaiURL
    /\ status[2] = <<200, 404>>
    /\ ret[2] = Null
    /\ akamaiURL = local[2].akamaiURL

\* The identifiers of the complete occurrences of the pattern in a body:
\* the text between a marker prefix and the next marker suffix, with no
\* other marker prefix in between.
OccursAt(c, t, i) == i >= 1 /\ i + Len(t) - 1 <= Len(c) /\ SubSeq(c, i, i + Len(t) - 1) = t
CompleteIdentifiers(c) ==
    {SubSeq(c, i + Len(MARKER_PREFIX), j - 1) :
        <<i, j>> \in {<<i, j>> \in (1..Len(c)) \X (1..Len(c)) :
            /\ OccursAt(c, MARKER_PREFIX, i)
            /\ j >= i + Len(MARKER_PREFIX)
            /\ OccursAt(c, MARKER_SUFFIX, j)
            /\ LET between == SubSeq(c, i + Len(MARKER_PREFIX), j - 1) IN
                   ~Includes(between, MARKER_PREFIX) /\ ~Includes(between, MARKER_SUFFIX)}}

\* C15: the extractor returns the identifier of a complete occurrence of
\* the pattern when the body has one, and the sentinel when it has none.
IdentifierExtraction ==
    ident.called =>
        IF CompleteIdentifiers(ident.content) # {}
        THEN ident.result \in CompleteIdentifiers(ident.content)
        ELSE ident.result = SENTINEL

\* C16: every GET the Worker issues carries the browser user-agent string as
\* its User-Agent header, and a run goes past a fetch only on status 200.
UserAgentSent ==
    \A r \in Runs :
        /\ \A i \in DOMAIN sent[r] : sent[r][i].userAgent = USER_AGENT
        /\ Entered(r, "locate") => status[r][1] = 200
        /\ Entered(r, "hash") => status[r][2] = 200

\* C17: for a page whose only script element has a src containing "sec-cpt"
\* the locator returns the empty URL.
SingleSecCptNoResult ==
    (locate.called /\ Len(locate.markup) = 1 /\ LastHasSecCpt(locate.markup)) =>
        locate.url = EMPTY

\* C18: every write the Worker starts, in any interleaving of overlapping
\* runs, goes to the path under the Worker's host directory whose file name
\* starts with the host and ends with the fingerprint of the body written.
StartsWith(s, t) == Len(t) <= Len(s) /\ SubSeq(s, 1, Len(t)) = t
EndsWith(s, t) == Len(t) <= Len(s) /\ SubSeq(s, Len(s) - Len(t) + 1, Len(s)) = t
PathMatchesBody(path, body) ==
    /\ StartsWith(path, DIR_PREFIX \o host \o <<"\\">> \o host \o <<"_">>)
    /\ EndsWith(path, <<"_">> \o getScriptHash(body) \o <<".", "j", "s">>)
WritePathMatchesBody ==
    /\ \A r \in Runs :
          save[r].outcome # "none" => PathMatchesBody(save[r].outputPath, save[r].scriptBody)
    /\ \A i \in DOMAIN disk : PathMatchesBody(disk[i].path, disk[i].body)

\* C18 witness: two overlapping runs fetched different bodies and both
\* wrote their file.
OverlappingWrites ==
    /\ pendingAtCall[2] = {1}
    /\ Len(disk) = 2
    /\ disk[1].body # disk[2].body
    /\ save[1].outcome = "written"
    /\ save[2].outcome = "written"

\* C19: in every interleaving the akamaiURL of a returned record is the URL
\* that the same run resolved and fetched the body from.
RecordURLIsOwnURL ==
    \A r \in Runs :
        ret[r].tag = "record" =>
            /\ ret[r].akamaiURL = local[r].akamaiURL
            /\ ret[r].akamaiURL = sent[r][2].url

\* C20: a run whose locate finds no script element leaves the stored URL as
\* it was.
LocateFailed(r) ==
    /\ pc[r] = "siteRequest"
    /\ local'[r].siteData = "html"
    /\ local'[r].akamaiURL = EMPTY
FailedLocateKeepsURL ==
    [][\A r \in Runs : LocateFailed(r) => akamaiURL' = akamaiURL]_vars

====
